---- MODULE Spec2Model ----
(***************************************************************************)
(* lightrary: discovery of Hue bridges and the authentication state        *)
(* machine  UnauthBridge -> Bridge -> Bridge with application key.         *)
(*                                                                         *)
(* The library has no long-running process of its own: a caller holds a    *)
(* value, calls one operation on it and gets a value back.  The model is   *)
(* that caller: `ret` is the value the last operation returned, `arg` the  *)
(* value it consumed, `env` what the network answered while it ran and     *)
(* `net` the requests it issued.  An operation starts only from a value    *)
(* the caller can actually hold (taken out of `ret`).                      *)
(***************************************************************************)
EXTENDS Integers, Sequences, FiniteSets, TLC

VARIABLES
    discoverer,     \* DiscoveryBroker.discoverer: the strategy bound at construction
    pc,             \* "idle", or the await point of the operation in progress
    arg,            \* the receiver (self) of the operation in progress or last run
    iter,           \* UnauthBridges::auth: what is left of `for bridge in self`
    results,        \* UnauthBridges::auth: the local `results`
    ret,            \* what the last operation returned to the caller
    env,            \* what the environment answered during the operation, in order
    net,            \* the network requests issued by the operation, in order
    sessions,       \* number of Sessions (reqwest Clients) built so far
    discoverCalls,  \* number of broker.discover() calls so far
    stream,         \* Mdns::discover: what the mDNS stream holds for the pending next()
    lights,         \* Lights: the lights loaded from the bridge, by key
    toggled         \* per light, state.on as it was before each toggle() so far

vars == <<discoverer, pc, arg, iter, results, ret, env, net, sessions, discoverCalls, stream,
          lights, toggled>>

(***************************************************************************)
(* Bounds of the model.                                                    *)
(***************************************************************************)
MaxDevices       == 2   \* longest device array the discovery endpoint answers
MaxSessions      == 3   \* Sessions built in one run
MaxDiscoverCalls == 2   \* discover() calls in one run
MaxRecords       == 2   \* records in one mDNS response
MaxOutcomes      == 2   \* elements in the answer to the key request
MaxLights        == 2   \* lights loaded from the bridge
MaxToggles       == 3   \* toggle() calls on one light

(***************************************************************************)
(* Option<T> and Result<T, E>.                                             *)
(***************************************************************************)
None == <<>>
Some(x) == <<x>>
IsSome(o) == Len(o) = 1

Ok(v) == [tag |-> "Ok", val |-> v]
Err(e) == [tag |-> "Err", val |-> e]
Panic(msg) == [tag |-> "Panic", val |-> msg]

SeqsUpTo(S, n) == UNION {[1..k -> S] : k \in 0..n}

(***************************************************************************)
(* error.rs: Error.  Each variant wraps the error of the layer it came     *)
(* from; a reqwest error is told apart by the step that raised it.         *)
(***************************************************************************)
ErrReqwest(kind) == [variant |-> "Reqwest", inner |-> kind]
ErrMdns(kind) == [variant |-> "Mdns", inner |-> kind]
ErrGenKey(e) == [variant |-> "GenKey", inner |-> e]

(***************************************************************************)
(* Addresses.  An Ipv4Addr is four octets; on the wire it is text that     *)
(* parses only when every octet fits in a byte.                            *)
(***************************************************************************)
Ips == {<<192, 168, 50, 173>>, <<10, 0, 0, 2>>}
Ip6s == {<<"fe80", "1">>}

IsIpv4(t) == Len(t) = 4 /\ \A i \in 1..4 : t[i] \in 0..255

V4(ip) == [family |-> "V4", addr |-> ip]
V6(ip) == [family |-> "V6", addr |-> ip]

\* the host of a URL: a domain name or an IPv4 address
Domain(name) == [domain |-> Some(name), ip |-> None]
IpHost(ip) == [domain |-> None, ip |-> Some(ip)]
Url(host, path) == [scheme |-> "https", host |-> host, path |-> path]
Get(url) == [method |-> "GET", url |-> url, body |-> None]
Post(url, body) == [method |-> "POST", url |-> url, body |-> Some(body)]
\* an mDNS query for a service name
Query(service) ==
    [method |-> "MDNS", url |-> [scheme |-> "mdns", host |-> Domain(service), path |-> ""], body |-> None]

(***************************************************************************)
(* resources/bridge.rs: UnauthBridge and its wire form at the discovery    *)
(* endpoint, {id?, internalipaddress, port}.                               *)
(***************************************************************************)
UnauthBridge(id, ip, port) == [id |-> id, ip |-> ip, port |-> port]

BridgeIds == {"001788fffe4b5a11"}

\* with and without id, both ports, and one address that does not parse
WireDevices ==
    {[id |-> "001788fffe4b5a11", internalipaddress |-> <<192, 168, 50, 173>>, port |-> 443],
     [internalipaddress |-> <<10, 0, 0, 2>>, port |-> 8443],
     [id |-> "001788fffe4b5a11", internalipaddress |-> <<10, 0, 0, 2>>, port |-> 443],
     [id |-> "001788fffe4b5a11", internalipaddress |-> <<192, 168, 50, 256>>, port |-> 443]}

NotJson == [kind |-> "text"]
JsonArray(items) == [kind |-> "array", items |-> items]
JsonObject(fields) == [kind |-> "object", fields |-> fields]

DecodeUnauthBridge(o) ==
    IF IsIpv4(o.internalipaddress)
    THEN Ok(UnauthBridge(IF "id" \in DOMAIN o THEN Some(o.id) ELSE None,
                         o.internalipaddress, o.port))
    ELSE Err(ErrReqwest("decode"))

DecodeUnauthBridges(body) ==
    IF body.kind = "array"
       /\ \A i \in 1..Len(body.items) : DecodeUnauthBridge(body.items[i]).tag = "Ok"
    THEN Ok([i \in 1..Len(body.items) |-> DecodeUnauthBridge(body.items[i]).val])
    ELSE Err(ErrReqwest("decode"))

(***************************************************************************)
(* discovery.rs: the three strategies and the broker's constructors.       *)
(***************************************************************************)
Mdns == [kind |-> "Mdns", ip |-> None, bridges |-> <<>>]
DiscoveryEndpoint == [kind |-> "DiscoveryEndpoint", ip |-> None, bridges |-> <<>>]
Manual(ip) == [kind |-> "Manual", ip |-> Some(ip), bridges |-> <<>>]

BrokerMdns == Mdns
BrokerDiscoveryEndpoint == DiscoveryEndpoint
BrokerManual(ip) == Manual(ip)
BrokerFrom(ip) == Manual(ip)

Brokers ==
    {BrokerMdns, BrokerDiscoveryEndpoint}
    \cup {BrokerManual(ip) : ip \in Ips} \cup {BrokerFrom(ip) : ip \in Ips}

RecordA(ip) == [kind |-> "A", addr |-> ip]
RecordAAAA(ip) == [kind |-> "AAAA", addr |-> ip]
RecordPTR == [kind |-> "PTR", addr |-> <<>>]
Records == {RecordA(ip) : ip \in Ips} \cup {RecordAAAA(ip) : ip \in Ip6s} \cup {RecordPTR}

to_ip_addr(record) ==
    CASE record.kind = "A" -> Some(V4(record.addr))
      [] record.kind = "AAAA" -> Some(V6(record.addr))
      [] OTHER -> None

\* records.filter_map(f).next(): f of the first record f does not map to None
RECURSIVE FilterMapNext(_)
FilterMapNext(records) ==
    IF records = <<>> THEN None
    ELSE IF IsSome(to_ip_addr(Head(records))) THEN to_ip_addr(Head(records))
    ELSE FilterMapNext(Tail(records))

\* what stream.next() can yield
StreamItems ==
    {[item |-> "Response", records |-> rs] : rs \in SeqsUpTo(Records, MaxRecords)}
    \cup {[item |-> "Error", records |-> <<>>], [item |-> "End", records |-> <<>>]}

\* the items that arrive after the first one: a response of one record at
\* most, an error, or the end of the stream
LaterItems == {i \in StreamItems : Len(i.records) <= 1}

MdnsNextResult(item) ==
    CASE item.item = "Response" ->
            LET addr == FilterMapNext(item.records) IN
            IF IsSome(addr)
            THEN IF addr[1].family = "V4"
                 THEN Ok(<<UnauthBridge(None, addr[1].addr, 443)>>)
                 ELSE Panic("ipv6 not yet supported.")
            ELSE Ok(<<>>)
      [] item.item = "Error" -> Err(ErrMdns("stream"))
      [] OTHER -> Ok(<<>>)

\* plain-http port instead of 443
ManualDiscoverResultHttp(d) == Ok(UnauthBridge(None, d.ip[1], 80))

ManualDiscoverResult(d) == Ok(UnauthBridge(None, d.ip[1], 443))

EndpointResponses ==
    {[sent |-> FALSE, body |-> NotJson], [sent |-> TRUE, body |-> NotJson]}
    \cup {[sent |-> TRUE, body |-> JsonArray(ds)] : ds \in SeqsUpTo(WireDevices, MaxDevices)}

EndpointDiscoverResult(resp) ==
    IF ~resp.sent THEN Err(ErrReqwest("request")) ELSE DecodeUnauthBridges(resp.body)

(***************************************************************************)
(* session.rs: Session::new builds a reqwest Client of its own; the n-th   *)
(* client built is told apart from the others by n.                        *)
(***************************************************************************)
Session(n) == [inner |-> n]

SessionNew(built, n) ==
    IF built THEN Ok(Session(n)) ELSE Err(ErrReqwest("builder"))

(***************************************************************************)
(* resources/bridge.rs: BridgeConfig and its wire form at /api/0/config.   *)
(* replacebridgeid and starterkitid may be missing; the rest is required.  *)
(***************************************************************************)
RequiredConfigFields ==
    {"name", "datastoreversion", "swversion", "apiversion", "mac", "bridgeid",
     "factorynew", "modelid"}

OptField(fields, name) == IF name \in DOMAIN fields THEN Some(fields[name]) ELSE None

DecodeBridgeConfig(body) ==
    IF body.kind = "object" /\ RequiredConfigFields \subseteq DOMAIN body.fields
    THEN Ok([name |-> body.fields.name,
             datastoreversion |-> body.fields.datastoreversion,
             swversion |-> body.fields.swversion,
             apiversion |-> body.fields.apiversion,
             mac |-> body.fields.mac,
             bridgeid |-> body.fields.bridgeid,
             factorynew |-> body.fields.factorynew,
             replacebridgeid |-> OptField(body.fields, "replacebridgeid"),
             modelid |-> body.fields.modelid,
             starterkitid |-> OptField(body.fields, "starterkitid")])
    ELSE Err(ErrReqwest("decode"))

ConfigBodies ==
    { NotJson,
      JsonObject([name |-> "Philips hue", datastoreversion |-> "126",
                  swversion |-> "1953188020", apiversion |-> "1.53.0",
                  mac |-> "00:17:88:4b:5a:11", bridgeid |-> "001788FFFE4B5A11",
                  factorynew |-> FALSE, replacebridgeid |-> "001788FFFE000000",
                  modelid |-> "BSB002", starterkitid |-> "kit"]),
      JsonObject([name |-> "Hue Go", datastoreversion |-> "98",
                  swversion |-> "1941132080", apiversion |-> "1.41.0",
                  mac |-> "00:17:88:9c:0d:22", bridgeid |-> "001788FFFE9C0D22",
                  factorynew |-> TRUE, modelid |-> "BSB001"]),
      JsonObject([name |-> "Philips hue", datastoreversion |-> "126",
                  swversion |-> "1953188020", apiversion |-> "1.53.0",
                  mac |-> "00:17:88:4b:5a:11", factorynew |-> FALSE,
                  modelid |-> "BSB002"]) }

\* what the environment does to one authentication attempt
AuthResponses ==
    {[built |-> FALSE, sent |-> FALSE, body |-> NotJson],
     [built |-> TRUE, sent |-> FALSE, body |-> NotJson]}
    \cup {[built |-> TRUE, sent |-> TRUE, body |-> b] : b \in ConfigBodies}

Bridge(id, ip, port, app_key, session, config) ==
    [id |-> id, ip |-> ip, port |-> port, app_key |-> app_key,
     session |-> session, config |-> config]

AuthFailed(bridge, err) == [bridge |-> bridge, err |-> err]

ConfigRequest(ip) == Get(Url(IpHost(ip), "/api/0/config"))

\* the Bridge gets the default port instead of the device's
UnauthBridgeAuthDefaultPort(self, resp, n) ==
    IF SessionNew(resp.built, n).tag = "Err"
    THEN Err(<<self, SessionNew(resp.built, n).val>>)
    ELSE IF ~resp.sent
    THEN Err(<<self, ErrReqwest("request")>>)
    ELSE IF DecodeBridgeConfig(resp.body).tag = "Err"
    THEN Err(<<self, DecodeBridgeConfig(resp.body).val>>)
    ELSE Ok(Bridge(self.id, self.ip, 443, None,
                   SessionNew(resp.built, n).val, DecodeBridgeConfig(resp.body).val))

\* a failure hands back a device rebuilt from the address alone
UnauthBridgeAuthLosesId(self, resp, n) ==
    IF SessionNew(resp.built, n).tag = "Err"
    THEN Err(<<self, SessionNew(resp.built, n).val>>)
    ELSE IF ~resp.sent
    THEN Err(<<UnauthBridge(None, self.ip, self.port), ErrReqwest("request")>>)
    ELSE IF DecodeBridgeConfig(resp.body).tag = "Err"
    THEN Err(<<UnauthBridge(None, self.ip, self.port), DecodeBridgeConfig(resp.body).val>>)
    ELSE Ok(Bridge(self.id, self.ip, self.port, None,
                   SessionNew(resp.built, n).val, DecodeBridgeConfig(resp.body).val))

\* UnauthBridge::auth(self), the n-th Session being the one it would build
UnauthBridgeAuth(self, resp, n) ==
    IF SessionNew(resp.built, n).tag = "Err"
    THEN Err(<<self, SessionNew(resp.built, n).val>>)
    ELSE IF ~resp.sent
    THEN Err(<<self, ErrReqwest("request")>>)
    ELSE IF DecodeBridgeConfig(resp.body).tag = "Err"
    THEN Err(<<self, DecodeBridgeConfig(resp.body).val>>)
    ELSE Ok(Bridge(self.id, self.ip, self.port, None,
                   SessionNew(resp.built, n).val, DecodeBridgeConfig(resp.body).val))

EmptyStream == [first |-> None, later |-> None]
Returned(op, res) == [op |-> op, res |-> res]
NoReturn == Returned("none", Panic("nothing"))
Val(v) == [tag |-> "Val", val |-> v]
EmptyResults == [success |-> <<>>, failed |-> <<>>]


(***************************************************************************)
(* Key issuance: the request body (resources/device.rs) and the answer,    *)
(* a JSON array of {"success": {..}} / {"error": {type, address,           *)
(* description}} objects (error.rs: GenKeyResult).                         *)
(***************************************************************************)
Tokens == {"JGQOy1ADXKSa3uuJNZDv5xcGrD9t-AHgoEXki-6a", "83b7780291a6ceffbe0bd049104df"}
AppNames == {"test_app"}
InstanceNames == {"yeey"}

\* Serialize for DeviceType: format!("{}#{}", app_name, instance_name)
DeviceTypeJson(app_name, instance_name) ==
    JsonObject([devicetype |-> <<app_name, "#", instance_name>>,
                generateclientkey |-> TRUE])

GenKeySuccess == [variant |-> "Success", inner |-> <<>>]
GenKeyError(t, address, description) ==
    [variant |-> "Error",
     inner |-> [t |-> t, address |-> address, description |-> description]]

OutcomeObjects ==
    {[success |-> [username |-> "JGQOy1ADXKSa3uuJNZDv5xcGrD9t-AHgoEXki-6a",
                   clientkey |-> "A1B2C3"]]}
    \cup {[error |-> [type |-> 101, address |-> "",
                      description |-> "link button not pressed"]],
          [error |-> [type |-> 7, address |-> "/devicetype",
                      description |-> "invalid value for parameter, devicetype"]],
          [error |-> [type |-> 101]]}

\* externally tagged enum; GenKeySuccess {} keeps none of the fields sent
DecodeGenKeyResult(o) ==
    IF DOMAIN o = {"success"} THEN Ok(GenKeySuccess)
    ELSE IF DOMAIN o = {"error"} /\ {"type", "address", "description"} \subseteq DOMAIN o.error
    THEN Ok(GenKeyError(o.error.type, o.error.address, o.error.description))
    ELSE Err(ErrReqwest("decode"))

DecodeGenKeyResults(body) ==
    IF body.kind = "array"
       /\ \A i \in 1..Len(body.items) : DecodeGenKeyResult(body.items[i]).tag = "Ok"
    THEN Ok([i \in 1..Len(body.items) |-> DecodeGenKeyResult(body.items[i]).val])
    ELSE Err(ErrReqwest("decode"))

GenKeyResponses ==
    {[sent |-> FALSE, body |-> NotJson], [sent |-> TRUE, body |-> NotJson]}
    \cup {[sent |-> TRUE, body |-> JsonArray(os)] : os \in SeqsUpTo(OutcomeObjects, MaxOutcomes)}

\* the description is replaced by the Display text of the error
CloneGenKeyErrorDisplay(e) ==
    [t |-> e.t, address |-> e.address, description |-> "link button not pressed"]

\* #[derive(Clone)] on GenKeyError
CloneGenKeyError(e) == [t |-> e.t, address |-> e.address, description |-> e.description]

\* the last element of the answer is consulted instead of the first
BridgeGenKeyLast(self, resp) ==
    IF ~resp.sent THEN Err(ErrReqwest("request"))
    ELSE IF DecodeGenKeyResults(resp.body).tag = "Err"
    THEN Err(DecodeGenKeyResults(resp.body).val)
    ELSE LET outcomes == DecodeGenKeyResults(resp.body).val IN
         IF Len(outcomes) = 0 THEN Panic("index out of bounds")
         ELSE IF outcomes[Len(outcomes)].variant = "Success"
         THEN LET app_key == "" IN
              Ok(<<[self EXCEPT !.app_key = Some(app_key)], app_key>>)
         ELSE Err(ErrGenKey(CloneGenKeyError(outcomes[Len(outcomes)].inner)))

\* Bridge::gen_key(self, app_name, instance_name)
BridgeGenKey(self, resp) ==
    IF ~resp.sent THEN Err(ErrReqwest("request"))
    ELSE IF DecodeGenKeyResults(resp.body).tag = "Err"
    THEN Err(DecodeGenKeyResults(resp.body).val)
    ELSE LET outcomes == DecodeGenKeyResults(resp.body).val IN
         IF Len(outcomes) = 0 THEN Panic("index out of bounds")
         ELSE IF outcomes[1].variant = "Success"
         THEN LET app_key == "" IN
              Ok(<<[self EXCEPT !.app_key = Some(app_key)], app_key>>)
         ELSE Err(ErrGenKey(CloneGenKeyError(outcomes[1].inner)))

\* the key is set only when none is there yet
BridgeWithKeyIfAbsent(self, app_key) ==
    IF IsSome(self.app_key) THEN self ELSE [self EXCEPT !.app_key = Some(app_key)]

\* Bridge::with_key(self, app_key)
BridgeWithKey(self, app_key) == [self EXCEPT !.app_key = Some(app_key)]

\* Bridges::into_singular(self): Vec::remove(0)
IntoSingularResult(self) ==
    IF Len(self) = 0 THEN Panic("removal index (is 0) should be < len (is 0)")
    ELSE Val(self[1])

Init ==
    /\ discoverer \in Brokers
    /\ pc = "idle"
    /\ arg = <<>>
    /\ iter = <<>>
    /\ results = EmptyResults
    /\ ret = NoReturn
    /\ env = <<>>
    /\ net = <<>>
    /\ sessions = 0
    /\ discoverCalls = 0
    /\ stream = EmptyStream
    /\ lights = <<>>
    /\ toggled = <<>>

\* DiscoveryBroker::discover hands the call to the bound strategy
BrokerDiscover(kind) ==
    /\ pc = "idle"
    /\ discoverer.kind = kind
    /\ discoverCalls < MaxDiscoverCalls
    /\ discoverCalls' = discoverCalls + 1
    /\ arg' = discoverer
    /\ UNCHANGED <<lights, toggled, stream, discoverer, iter, results, sessions>>

ManualDiscover ==
    /\ BrokerDiscover("Manual")
    /\ ret' = Returned("discover", ManualDiscoverResult(discoverer))
    /\ env' = <<>>
    /\ net' = <<>>
    /\ pc' = "idle"

\* an earlier successful answer is kept and handed out again
EndpointDiscoverCached ==
    /\ BrokerDiscover("DiscoveryEndpoint")
    /\ \E resp \in EndpointResponses :
        /\ ret' = IF ret.op = "discover" /\ ret.res.tag = "Ok"
                  THEN ret
                  ELSE Returned("discover", EndpointDiscoverResult(resp))
        /\ env' = <<resp>>
    /\ net' = <<Get(Url(Domain("discovery.meethue.com"), ""))>>
    /\ pc' = "idle"

EndpointDiscover ==
    /\ BrokerDiscover("DiscoveryEndpoint")
    /\ \E resp \in EndpointResponses :
        /\ ret' = Returned("discover", EndpointDiscoverResult(resp))
        /\ env' = <<resp>>
    /\ net' = <<Get(Url(Domain("discovery.meethue.com"), ""))>>
    /\ pc' = "idle"

\* mdns::discover::all(..)?.listen(): the socket is set up or the call fails
MdnsDiscover ==
    /\ BrokerDiscover("Mdns")
    /\ \E up \in BOOLEAN :
        /\ env' = <<[listening |-> up]>>
        /\ IF up
           THEN pc' = "mdns_next" /\ ret' = NoReturn
           ELSE pc' = "idle" /\ ret' = Returned("discover", Err(ErrMdns("socket")))
    /\ net' = <<Query("_hue._tcp.local")>>

\* while discover() waits in stream.next(), the socket delivers a response
\* batch, fails, or the stream ends; the first item is the one next() will
\* yield, of the items after it the latest is kept
MdnsArrive ==
    /\ pc = "mdns_next"
    /\ \E item \in StreamItems :
        IF stream.first = None
        THEN stream' = [stream EXCEPT !.first = Some(item)]
        ELSE /\ item \in LaterItems
             /\ stream.first[1].item # "End"
             /\ IF stream.later = None THEN TRUE ELSE stream.later[1].item # "End"
             /\ stream' = [stream EXCEPT !.later = Some(item)]
    /\ UNCHANGED <<lights, toggled, discoverer, pc, arg, iter, results, ret, env, net, sessions, discoverCalls>>

\* stream.next().await yields the first item; the stream is dropped on return
MdnsNext ==
    /\ pc = "mdns_next"
    /\ stream.first # None
    /\ ret' = Returned("discover", MdnsNextResult(stream.first[1]))
    /\ env' = env \o stream.first \o stream.later
    /\ stream' = EmptyStream
    /\ pc' = "idle"
    /\ UNCHANGED <<lights, toggled, discoverer, arg, iter, results, net, sessions, discoverCalls>>

(***************************************************************************)
(* The values the caller can hand to the next operation.                   *)
(***************************************************************************)
SeqElems(s) == {s[i] : i \in 1..Len(s)}

\* single devices: from Manual, out of a discovered set, or handed back by a failure
HeldUnauthBridge ==
    CASE ret.op = "discover" /\ ret.res.tag = "Ok" /\ discoverer.kind = "Manual" ->
            {ret.res.val}
      [] ret.op = "discover" /\ ret.res.tag = "Ok" /\ discoverer.kind # "Manual" ->
            SeqElems(ret.res.val)
      [] ret.op = "auth" /\ ret.res.tag = "Err" -> {ret.res.val[1]}
      [] ret.op = "auths" -> {f.bridge : f \in SeqElems(ret.res.val.failed)}
      [] OTHER -> {}

HeldUnauthBridges ==
    IF ret.op = "discover" /\ ret.res.tag = "Ok" /\ discoverer.kind # "Manual"
    THEN {ret.res.val} ELSE {}

\* UnauthBridge::auth
Auth ==
    /\ pc = "idle"
    /\ sessions < MaxSessions
    /\ \E self \in HeldUnauthBridge, resp \in AuthResponses :
        /\ arg' = self
        /\ env' = <<resp>>
        /\ ret' = Returned("auth", UnauthBridgeAuth(self, resp, sessions + 1))
        /\ sessions' = IF resp.built THEN sessions + 1 ELSE sessions
        /\ net' = IF resp.built THEN <<ConfigRequest(self.ip)>> ELSE <<>>
    /\ UNCHANGED <<lights, toggled, stream, discoverer, pc, iter, results, discoverCalls>>

\* UnauthBridges::auth, up to the loop
AuthsCall ==
    /\ pc = "idle"
    /\ \E self \in HeldUnauthBridges :
        /\ sessions + Len(self) <= MaxSessions
        /\ arg' = self
        /\ iter' = self
    /\ results' = EmptyResults
    /\ env' = <<>>
    /\ net' = <<>>
    /\ ret' = NoReturn
    /\ pc' = "auths_for"
    /\ UNCHANGED <<lights, toggled, stream, discoverer, sessions, discoverCalls>>

\* one turn of `for bridge in self`; the four ways it ends
AuthsTurn(bridge) ==
    /\ pc = "auths_for"
    /\ iter # <<>>
    /\ bridge = Head(iter)
    /\ iter' = Tail(iter)
    /\ UNCHANGED <<lights, toggled, stream, discoverer, pc, arg, ret, discoverCalls>>

\* `break` where the code has `continue`
AuthsSessionErrBreak ==
    \E bridge \in SeqElems(iter), resp \in AuthResponses :
        /\ pc = "auths_for"
        /\ iter # <<>>
        /\ bridge = Head(iter)
        /\ iter' = <<>>
        /\ SessionNew(resp.built, sessions + 1).tag = "Err"
        /\ results' = [results EXCEPT !.failed =
              Append(@, AuthFailed(bridge, SessionNew(resp.built, sessions + 1).val))]
        /\ env' = Append(env, resp)
        /\ UNCHANGED <<lights, toggled, stream, discoverer, pc, arg, ret, discoverCalls, net, sessions>>

AuthsSessionErr ==
    \E bridge \in SeqElems(iter), resp \in AuthResponses :
        /\ AuthsTurn(bridge)
        /\ SessionNew(resp.built, sessions + 1).tag = "Err"
        /\ results' = [results EXCEPT !.failed =
              Append(@, AuthFailed(bridge, SessionNew(resp.built, sessions + 1).val))]
        /\ env' = Append(env, resp)
        /\ UNCHANGED <<net, sessions>>

\* the failed device is rebuilt from its address instead of moved
AuthsSendErrRebuilt ==
    \E bridge \in SeqElems(iter), resp \in AuthResponses :
        /\ AuthsTurn(bridge)
        /\ SessionNew(resp.built, sessions + 1).tag = "Ok"
        /\ ~resp.sent
        /\ results' = [results EXCEPT !.failed =
              Append(@, AuthFailed(UnauthBridge(None, bridge.ip, 443),
                                   ErrReqwest("request")))]
        /\ env' = Append(env, resp)
        /\ net' = Append(net, ConfigRequest(bridge.ip))
        /\ sessions' = sessions + 1

AuthsSendErr ==
    \E bridge \in SeqElems(iter), resp \in AuthResponses :
        /\ AuthsTurn(bridge)
        /\ SessionNew(resp.built, sessions + 1).tag = "Ok"
        /\ ~resp.sent
        /\ results' = [results EXCEPT !.failed =
              Append(@, AuthFailed(bridge, ErrReqwest("request")))]
        /\ env' = Append(env, resp)
        /\ net' = Append(net, ConfigRequest(bridge.ip))
        /\ sessions' = sessions + 1

\* the decode failure is recorded as a failure of the request
AuthsJsonErrWrongError ==
    \E bridge \in SeqElems(iter), resp \in AuthResponses :
        /\ AuthsTurn(bridge)
        /\ SessionNew(resp.built, sessions + 1).tag = "Ok"
        /\ resp.sent
        /\ DecodeBridgeConfig(resp.body).tag = "Err"
        /\ results' = [results EXCEPT !.failed =
              Append(@, AuthFailed(bridge, ErrReqwest("request")))]
        /\ env' = Append(env, resp)
        /\ net' = Append(net, ConfigRequest(bridge.ip))
        /\ sessions' = sessions + 1

\* the decode failure is skipped without being recorded
AuthsJsonErrDropped ==
    \E bridge \in SeqElems(iter), resp \in AuthResponses :
        /\ AuthsTurn(bridge)
        /\ SessionNew(resp.built, sessions + 1).tag = "Ok"
        /\ resp.sent
        /\ DecodeBridgeConfig(resp.body).tag = "Err"
        /\ results' = results
        /\ env' = Append(env, resp)
        /\ net' = Append(net, ConfigRequest(bridge.ip))
        /\ sessions' = sessions + 1

AuthsJsonErr ==
    \E bridge \in SeqElems(iter), resp \in AuthResponses :
        /\ AuthsTurn(bridge)
        /\ SessionNew(resp.built, sessions + 1).tag = "Ok"
        /\ resp.sent
        /\ DecodeBridgeConfig(resp.body).tag = "Err"
        /\ results' = [results EXCEPT !.failed =
              Append(@, AuthFailed(bridge, DecodeBridgeConfig(resp.body).val))]
        /\ env' = Append(env, resp)
        /\ net' = Append(net, ConfigRequest(bridge.ip))
        /\ sessions' = sessions + 1

\* one Session for the whole loop: the latest one built is used again
AuthsPushShared ==
    \E bridge \in SeqElems(iter), resp \in AuthResponses :
        /\ AuthsTurn(bridge)
        /\ SessionNew(resp.built, sessions + 1).tag = "Ok"
        /\ resp.sent
        /\ DecodeBridgeConfig(resp.body).tag = "Ok"
        /\ results' = [results EXCEPT !.success =
              Append(@, Bridge(bridge.id, bridge.ip, bridge.port, None,
                               IF sessions = 0 THEN Session(1) ELSE Session(sessions),
                               DecodeBridgeConfig(resp.body).val))]
        /\ env' = Append(env, resp)
        /\ net' = Append(net, ConfigRequest(bridge.ip))
        /\ sessions' = IF sessions = 0 THEN 1 ELSE sessions

\* the Bridge is inserted at the front of `success`
AuthsPushFront ==
    \E bridge \in SeqElems(iter), resp \in AuthResponses :
        /\ AuthsTurn(bridge)
        /\ SessionNew(resp.built, sessions + 1).tag = "Ok"
        /\ resp.sent
        /\ DecodeBridgeConfig(resp.body).tag = "Ok"
        /\ results' = [results EXCEPT !.success =
              <<Bridge(bridge.id, bridge.ip, bridge.port, None,
                       SessionNew(resp.built, sessions + 1).val,
                       DecodeBridgeConfig(resp.body).val)>> \o @]
        /\ env' = Append(env, resp)
        /\ net' = Append(net, ConfigRequest(bridge.ip))
        /\ sessions' = sessions + 1

AuthsPush ==
    \E bridge \in SeqElems(iter), resp \in AuthResponses :
        /\ AuthsTurn(bridge)
        /\ SessionNew(resp.built, sessions + 1).tag = "Ok"
        /\ resp.sent
        /\ DecodeBridgeConfig(resp.body).tag = "Ok"
        /\ results' = [results EXCEPT !.success =
              Append(@, Bridge(bridge.id, bridge.ip, bridge.port, None,
                               SessionNew(resp.built, sessions + 1).val,
                               DecodeBridgeConfig(resp.body).val))]
        /\ env' = Append(env, resp)
        /\ net' = Append(net, ConfigRequest(bridge.ip))
        /\ sessions' = sessions + 1

\* the loop is over: `results` is the value of the call
AuthsReturn ==
    /\ pc = "auths_for"
    /\ iter = <<>>
    /\ ret' = Returned("auths", Val(results))
    /\ results' = EmptyResults
    /\ pc' = "idle"
    /\ UNCHANGED <<lights, toggled, stream, discoverer, arg, iter, env, net, sessions, discoverCalls>>

\* Bridges the caller can take out of the last result
HeldBridges == IF ret.op = "auths" THEN {ret.res.val.success} ELSE {}

HeldBridge ==
    CASE ret.op = "auth" /\ ret.res.tag = "Ok" -> {ret.res.val}
      [] ret.op = "into_singular" /\ ret.res.tag = "Val" -> {ret.res.val}
      [] ret.op = "with_key" -> {ret.res.val}
      [] ret.op = "gen_key" /\ ret.res.tag = "Ok" -> {ret.res.val[1]}
      [] OTHER -> {}

\* Bridges::into_singular
IntoSingular ==
    /\ pc = "idle"
    /\ \E self \in HeldBridges :
        /\ arg' = self
        /\ ret' = Returned("into_singular", IntoSingularResult(self))
    /\ env' = <<>>
    /\ net' = <<>>
    /\ UNCHANGED <<lights, toggled, stream, discoverer, pc, iter, results, sessions, discoverCalls>>

\* Bridge::with_key
WithKey ==
    /\ pc = "idle"
    /\ \E self \in HeldBridge, app_key \in Tokens :
        /\ arg' = self
        /\ ret' = Returned("with_key", Val(BridgeWithKey(self, app_key)))
        /\ env' = <<[app_key |-> app_key]>>
    /\ net' = <<>>
    /\ UNCHANGED <<lights, toggled, stream, discoverer, pc, iter, results, sessions, discoverCalls>>

\* Bridge::gen_key
GenKey ==
    /\ pc = "idle"
    /\ \E self \in HeldBridge, resp \in GenKeyResponses,
          app_name \in AppNames, instance_name \in InstanceNames :
        /\ arg' = self
        /\ env' = <<resp>>
        /\ ret' = Returned("gen_key", BridgeGenKey(self, resp))
        /\ net' = <<Post(Url(IpHost(self.ip), "/api"), DeviceTypeJson(app_name, instance_name))>>
    /\ UNCHANGED <<lights, toggled, stream, discoverer, pc, iter, results, sessions, discoverCalls>>

Next ==
    \/ ManualDiscover
    \/ EndpointDiscover
    \/ MdnsDiscover
    \/ MdnsArrive
    \/ MdnsNext
    \/ Auth
    \/ AuthsCall
    \/ AuthsSessionErr
    \/ AuthsSendErr
    \/ AuthsJsonErr
    \/ AuthsPush
    \/ AuthsReturn
    \/ IntoSingular
    \/ WithKey
    \/ GenKey

Spec == Init /\ [][Next]_vars

\* An operation that has been called runs on whenever it can take a step: the
\* executor polls the future again once what it awaits is ready.  Nothing
\* obliges the caller to call, nor the network to deliver anything.
FairSpec ==
    /\ Spec
    /\ WF_vars(MdnsNext)
    /\ WF_vars(AuthsSessionErr \/ AuthsSendErr \/ AuthsJsonErr \/ AuthsPush)
    /\ WF_vars(AuthsReturn)

(***************************************************************************)
(* Vocabulary of the properties.                                           *)
(***************************************************************************)
AuthsRunning == pc = "auths_for"
AuthsDone == pc = "idle" /\ ret.op = "auths"
AuthsOut == IF AuthsRunning THEN results ELSE ret.res.val
\* devices of the input the loop has been through
Attempted == Len(arg) - Len(iter)

\* the three steps of one attempt all went well
Succeeds(resp) == resp.built /\ resp.sent /\ DecodeBridgeConfig(resp.body).tag = "Ok"
\* the error of the first step that went wrong
StepError(resp) ==
    IF ~resp.built THEN ErrReqwest("builder")
    ELSE IF ~resp.sent THEN ErrReqwest("request")
    ELSE ErrReqwest("decode")

Ident(b) == [id |-> b.id, ip |-> b.ip, port |-> b.port]
OkIdx(n) == SelectSeq([i \in 1..n |-> i], LAMBDA i : Succeeds(env[i]))
FailIdx(n) == SelectSeq([i \in 1..n |-> i], LAMBDA i : ~Succeeds(env[i]))
PosOk(i) == Cardinality({h \in 1..i : Succeeds(env[h])})
PosFail(i) == Cardinality({h \in 1..i : ~Succeeds(env[h])})

\* C1: batch authentication partitions its input: every device the loop has
\* been through sits in exactly one slot of `success` or `failed`, and the two
\* lengths add up to the number of devices (the whole input once it returns).
C1_Partition ==
    (AuthsRunning \/ AuthsDone) =>
        LET out == AuthsOut
            n == Attempted
            slots == ({"success"} \X (1..Len(out.success)))
                     \cup ({"failed"} \X (1..Len(out.failed)))
            DeviceAt(slot) == IF slot[1] = "success"
                              THEN Ident(out.success[slot[2]])
                              ELSE out.failed[slot[2]].bridge
        IN  /\ Len(out.success) + Len(out.failed) = n
            /\ AuthsDone => Len(out.success) + Len(out.failed) = Len(arg)
            /\ \E f \in [1..n -> slots] :
                  /\ \A i, j \in 1..n : i # j => f[i] # f[j]
                  /\ \A i \in 1..n : DeviceAt(f[i]) = arg[i]

C1_Witness ==
    /\ AuthsDone
    /\ Len(ret.res.val.success) = 1
    /\ Len(ret.res.val.failed) = 1

\* C2: a failed authentication hands back the input device unchanged, with the
\* error of the step that failed: in Err((device, error)) of the single
\* operation and in every AuthFailed of the batch.
C2_FailedDeviceUnchanged ==
    /\ (pc = "idle" /\ ret.op = "auth" /\ ret.res.tag = "Err") =>
            /\ ret.res.val[1] = arg
            /\ ret.res.val[2] = StepError(env[1])
    /\ (AuthsRunning \/ AuthsDone) =>
            LET out == AuthsOut
                fi == FailIdx(Attempted)
            IN  /\ Len(out.failed) = Len(fi)
                /\ \A k \in 1..Len(fi) :
                      /\ out.failed[k].bridge = arg[fi[k]]
                      /\ out.failed[k].err = StepError(env[fi[k]])

C2_Witness ==
    /\ AuthsDone
    /\ Len(ret.res.val.failed) = 2
    /\ ret.res.val.failed[1].err # ret.res.val.failed[2].err
    /\ \E k \in 1..2 : IsSome(ret.res.val.failed[k].bridge.id)
    /\ \E k \in 1..2 : ret.res.val.failed[k].bridge.port # 443

\* C3: the batch never stops early: when it returns it returns an AuthResults,
\* every input device has been attempted, and every device whose three steps
\* succeeded has its Bridge in `success` however many others failed.
C3_NoShortCircuit ==
    /\ AuthsRunning =>
            /\ Len(env) = Attempted
            /\ Len(results.success) = PosOk(Attempted)
    /\ AuthsDone =>
            /\ ret.res.tag = "Val"
            /\ Len(env) = Len(arg)
            /\ Len(ret.res.val.success) = PosOk(Len(arg))
            /\ \A i \in 1..Len(arg) :
                  Succeeds(env[i]) =>
                      \E k \in 1..Len(ret.res.val.success) :
                          Ident(ret.res.val.success[k]) = arg[i]

C3_Witness ==
    /\ AuthsDone
    /\ Len(arg) = 2
    /\ ~Succeeds(env[1])
    /\ Succeeds(env[2])
    /\ Len(ret.res.val.success) = 1

\* C4: both outputs keep the input order: the i-th input device, if it
\* succeeded, is the Bridge at the position given by the number of successes
\* up to i, and if it failed, the AuthFailed at the number of failures up to i.
C4_OrderPreserved ==
    (AuthsRunning \/ AuthsDone) =>
        LET out == AuthsOut IN
        \A i \in 1..Attempted :
            IF Succeeds(env[i])
            THEN /\ PosOk(i) <= Len(out.success)
                 /\ Ident(out.success[PosOk(i)]) = arg[i]
                 /\ out.success[PosOk(i)].config = DecodeBridgeConfig(env[i].body).val
            ELSE /\ PosFail(i) <= Len(out.failed)
                 /\ out.failed[PosFail(i)].bridge = arg[i]
                 /\ out.failed[PosFail(i)].err = StepError(env[i])

C4_Witness ==
    /\ AuthsDone
    /\ Len(ret.res.val.success) = 2
    /\ Ident(ret.res.val.success[1]) # Ident(ret.res.val.success[2])
    /\ ret.res.val.success[1].config # ret.res.val.success[2].config

\* C5: a successful authentication, single or batched, yields a Bridge with the
\* id, address and port of the input device, the config decoded from the
\* answer, and no application key.
C5_SuccessCarriesOver ==
    /\ (pc = "idle" /\ ret.op = "auth" /\ ret.res.tag = "Ok") =>
            /\ ret.res.val.id = arg.id
            /\ ret.res.val.ip = arg.ip
            /\ ret.res.val.port = arg.port
            /\ ret.res.val.config = DecodeBridgeConfig(env[1].body).val
            /\ ret.res.val.app_key = None
    /\ (AuthsRunning \/ AuthsDone) =>
            LET out == AuthsOut
                oi == OkIdx(Attempted)
            IN  /\ Len(out.success) = Len(oi)
                /\ \A k \in 1..Len(oi) :
                      /\ out.success[k].id = arg[oi[k]].id
                      /\ out.success[k].ip = arg[oi[k]].ip
                      /\ out.success[k].port = arg[oi[k]].port
                      /\ out.success[k].config = DecodeBridgeConfig(env[oi[k]].body).val
                      /\ out.success[k].app_key = None

C5_Witness ==
    /\ pc = "idle" /\ ret.op = "auth" /\ ret.res.tag = "Ok"
    /\ IsSome(arg.id)
    /\ IsSome(ret.res.val.config.replacebridgeid)

\* the answer to the key request decoded, and its first element
GenKeyReturned == pc = "idle" /\ ret.op = "gen_key"
GenKeyDecoded ==
    /\ env[1].sent
    /\ DecodeGenKeyResults(env[1].body).tag = "Ok"
    /\ Len(env[1].body.items) >= 1
FirstOutcome == DecodeGenKeyResult(env[1].body.items[1]).val

\* C6: when the first element of the answer is a success outcome, gen_key
\* returns the token the device sent as the key, the Bridge carries that token
\* as app_key, and id, ip, port, session and config are those of the input.
C6_KeyIsDeviceToken ==
    (GenKeyReturned /\ GenKeyDecoded /\ FirstOutcome.variant = "Success") =>
        /\ ret.res.tag = "Ok"
        /\ ret.res.val[2] = env[1].body.items[1].success.username
        /\ ret.res.val[1].app_key = Some(env[1].body.items[1].success.username)
        /\ ret.res.val[1].id = arg.id
        /\ ret.res.val[1].ip = arg.ip
        /\ ret.res.val[1].port = arg.port
        /\ ret.res.val[1].session = arg.session
        /\ ret.res.val[1].config = arg.config

\* C7: when the first element of the answer is an error outcome, gen_key fails
\* with Error::GenKey carrying the type, address and description the device
\* sent, and returns neither a key nor a Bridge.
C7_ErrorVerbatim ==
    (GenKeyReturned /\ GenKeyDecoded /\ FirstOutcome.variant = "Error") =>
        /\ ret.res.tag = "Err"
        /\ ret.res.val.variant = "GenKey"
        /\ ret.res.val.inner.t = env[1].body.items[1].error.type
        /\ ret.res.val.inner.address = env[1].body.items[1].error.address
        /\ ret.res.val.inner.description = env[1].body.items[1].error.description
        /\ HeldBridge = {}

C7_Witness ==
    /\ GenKeyReturned
    /\ ret.res.tag = "Err"
    /\ ret.res.val.variant = "GenKey"
    /\ ret.res.val.inner.t = 101
    /\ ret.res.val.inner.description = "link button not pressed"

\* C8, as claimed: both transitions hand the pre-transition value back on
\* failure: a failed auth the unauthenticated device, a failed gen_key the
\* Bridge it was called on.
C8_FailurePreserving ==
    /\ (pc = "idle" /\ ret.op = "auth" /\ ret.res.tag = "Err") => arg \in HeldUnauthBridge
    /\ (GenKeyReturned /\ ret.res.tag = "Err") => arg \in HeldBridge

\* C8, amended: a failed auth hands the unauthenticated device back; a failed
\* gen_key returns the Error alone, the Bridge it consumed is not returned.
C8_AuthFailurePreserving ==
    /\ (pc = "idle" /\ ret.op = "auth" /\ ret.res.tag = "Err") =>
            /\ ret.res.val[1] = arg
            /\ HeldUnauthBridge = {arg}
    /\ (GenKeyReturned /\ ret.res.tag = "Err") =>
            /\ DOMAIN ret.res.val = {"variant", "inner"}
            /\ ret.res.val.variant \in {"Reqwest", "GenKey"}
            /\ HeldBridge = {}

C8_Witness ==
    /\ GenKeyReturned
    /\ ret.res = Err(ErrReqwest("request"))
    /\ arg.app_key = None

\* C9: into_singular returns a Bridge only for a set of exactly one element;
\* for the empty set and for a larger set it panics.
C9_IntoSingularExactlyOne ==
    (pc = "idle" /\ ret.op = "into_singular") =>
        IF Len(arg) = 1 THEN ret.res = Val(arg[1]) ELSE ret.res.tag = "Panic"

\* C10: every discover() of a Manual broker returns Ok with the one device at
\* the bound address, port 443 and no id, and issues no request; a second
\* call returns the same.
C10_ManualDiscover ==
    (pc = "idle" /\ ret.op = "discover" /\ discoverer.kind = "Manual") =>
        /\ ret.res.tag = "Ok"
        /\ DOMAIN ret.res.val = {"id", "ip", "port"}
        /\ ret.res.val.ip = discoverer.ip[1]
        /\ ret.res.val.port = 443
        /\ ret.res.val.id = None
        /\ net = <<>>
        /\ env = <<>>

C10_Witness ==
    /\ pc = "idle" /\ ret.op = "discover" /\ discoverer.kind = "Manual"
    /\ discoverCalls = 2
    /\ ret.res.val.ip = <<192, 168, 50, 173>>

MdnsWaiting == pc = "mdns_next"
MdnsReturned == pc = "idle" /\ ret.op = "discover" /\ discoverer.kind = "Mdns"
\* the A records of a response, in order
Ipv4Records(records) == SelectSeq(records, LAMBDA r : r.kind = "A")

\* C11: a discover() that waits and gets no response batch (the stream yields
\* nothing but, at most, its end) comes back with Ok and an empty set.
C11_NoResponseReturnsEmpty ==
    (MdnsWaiting /\ stream.first = None)
        ~> \/ MdnsReturned /\ ret.res = Ok(<<>>)
           \/ stream.first # None /\ stream.first[1].item # "End"

\* C12: mDNS discovery never panics: whatever the first batch holds, and on a
\* transport error, it returns Ok with devices at IPv4 addresses or an Err.
C12_MdnsNeverPanics ==
    MdnsReturned =>
        /\ ret.res.tag \in {"Ok", "Err"}
        /\ ret.res.tag = "Ok" =>
              \A i \in 1..Len(ret.res.val) : IsIpv4(ret.res.val[i].ip)

\* C13, as claimed: the key is absent after authentication, goes from absent
\* to present only through a successful gen_key, and once present is the same
\* after any further operation.
C13_KeySetOnceByGenKey ==
    /\ (pc = "idle" /\ ret.op = "auth" /\ ret.res.tag = "Ok") => ret.res.val.app_key = None
    /\ (pc = "idle" /\ ret.op \in {"with_key", "gen_key"}) =>
            \A b \in HeldBridge :
                /\ IsSome(arg.app_key) => b.app_key = arg.app_key
                /\ (arg.app_key = None /\ IsSome(b.app_key)) => ret.op = "gen_key"

\* C13, amended: the key is absent after authentication; with_key sets it to
\* the key passed and a successful gen_key to the key it returns, whether or
\* not one was there; no operation takes a Bridge back to no key, and the
\* other fields stay.
C13_KeySetByWithKeyOrGenKey ==
    /\ (pc = "idle" /\ ret.op = "auth" /\ ret.res.tag = "Ok") => ret.res.val.app_key = None
    /\ (pc = "idle" /\ ret.op = "into_singular" /\ ret.res.tag = "Val") =>
            ret.res.val.app_key = None
    /\ (pc = "idle" /\ ret.op = "with_key") =>
            ret.res.val = [arg EXCEPT !.app_key = Some(env[1].app_key)]
    /\ (GenKeyReturned /\ ret.res.tag = "Ok") =>
            ret.res.val[1] = [arg EXCEPT !.app_key = Some(ret.res.val[2])]
    /\ (GenKeyReturned /\ ret.res.tag # "Ok") => HeldBridge = {}

C13_Witness ==
    /\ pc = "idle" /\ ret.op = "with_key"
    /\ IsSome(arg.app_key)
    /\ ret.res.val.app_key # arg.app_key

\* C14: the broker keeps the strategy it was built with, and a discover()
\* returns what one run of that strategy returns on the answers of this call:
\* one request at most, nothing of an earlier call, no other strategy.
DiscoverDelegated ==
    (pc = "idle" /\ ret.op = "discover") =>
        /\ arg = discoverer
        /\ CASE discoverer.kind = "Manual" ->
                    /\ ret.res = ManualDiscoverResult(discoverer)
                    /\ net = <<>>
             [] discoverer.kind = "DiscoveryEndpoint" ->
                    /\ Len(env) = 1
                    /\ net = <<Get(Url(Domain("discovery.meethue.com"), ""))>>
                    /\ ret.res = EndpointDiscoverResult(env[1])
             [] discoverer.kind = "Mdns" ->
                    /\ Len(net) = 1
                    /\ IF env[1].listening
                       THEN ret.res = MdnsNextResult(env[2])
                       ELSE ret.res = Err(ErrMdns("socket"))

C14_BrokerDelegates == []DiscoverDelegated /\ [][discoverer' = discoverer]_vars

C14_Witness ==
    /\ pc = "idle" /\ ret.op = "discover" /\ discoverer.kind = "DiscoveryEndpoint"
    /\ discoverCalls = 2
    /\ ret.res.tag = "Err"

\* C15: a discover() that waits on the mDNS stream eventually returns.
C15_MdnsDiscoverReturns == MdnsWaiting ~> pc = "idle"

\* C16: the result is decided by the first batch alone: one device, at the
\* first IPv4 address among its records, port 443, no id, when there is an
\* IPv4 address, and the empty set when there is none.
C16_FirstIpv4OfFirstBatch ==
    (MdnsReturned /\ Len(env) >= 2 /\ env[2].item = "Response") =>
        LET a == Ipv4Records(env[2].records) IN
        ret.res = IF a # <<>>
                  THEN Ok(<<UnauthBridge(None, a[1].addr, 443)>>)
                  ELSE Ok(<<>>)

\* sessions built before the batch started, and by its first i attempts
BuiltUpTo(i) == Cardinality({h \in 1..i : env[h].built})
SessionsBefore == sessions - BuiltUpTo(Attempted)

\* C17: the batch gives the i-th device what UnauthBridge::auth gives it on the
\* same answers, the Bridge in `success` or the device and error in `failed`,
\* and sends the requests one device after the other in input order.
C17_BatchIsSequentialSingle ==
    (AuthsRunning \/ AuthsDone) =>
        LET out == AuthsOut
            Single(i) == UnauthBridgeAuth(arg[i], env[i], SessionsBefore + BuiltUpTo(i - 1) + 1)
            built == SelectSeq([i \in 1..Attempted |-> i], LAMBDA i : env[i].built)
        IN  /\ \A i \in 1..Attempted :
                  IF Single(i).tag = "Ok"
                  THEN /\ PosOk(i) \in 1..Len(out.success)
                       /\ out.success[PosOk(i)] = Single(i).val
                  ELSE /\ PosFail(i) \in 1..Len(out.failed)
                       /\ out.failed[PosFail(i)] =
                              AuthFailed(Single(i).val[1], Single(i).val[2])
            /\ net = [k \in 1..Len(built) |-> ConfigRequest(arg[built[k]].ip)]

C17_Witness ==
    /\ AuthsDone
    /\ Len(arg) = 2
    /\ arg[1] # arg[2]
    /\ Succeeds(env[1])
    /\ env[2].sent /\ ~Succeeds(env[2])

\* C18: for an answer that decodes to a non-empty sequence of outcomes, gen_key
\* returns what it returns for the first element alone.
C18_FirstOutcomeDecides ==
    (GenKeyReturned /\ GenKeyDecoded) =>
        ret.res = BridgeGenKey(arg, [sent |-> TRUE,
                                     body |-> JsonArray(<<env[1].body.items[1]>>)])

C18_Witness ==
    /\ GenKeyReturned /\ GenKeyDecoded
    /\ Len(env[1].body.items) = 2
    /\ FirstOutcome.variant = "Error"
    /\ DecodeGenKeyResult(env[1].body.items[2]).val.variant = "Success"
    /\ ret.res.tag = "Err"

\* C19: every attempt builds a Session of its own: the Bridges of a batch hold
\* pairwise different Sessions, each the one built in its own attempt, later
\* than every Session built before, those of failed attempts included.
C19_SessionsNotShared ==
    /\ (AuthsRunning \/ AuthsDone) =>
            LET out == AuthsOut IN
            /\ SessionsBefore >= 0
            /\ \A k, l \in 1..Len(out.success) :
                  k # l => out.success[k].session # out.success[l].session
            /\ \A i \in 1..Attempted :
                  Succeeds(env[i]) =>
                      /\ PosOk(i) \in 1..Len(out.success)
                      /\ out.success[PosOk(i)].session = Session(SessionsBefore + BuiltUpTo(i))
    /\ (pc = "idle" /\ ret.op = "auth" /\ ret.res.tag = "Ok") =>
            /\ ret.res.val.session = Session(sessions)
            /\ sessions >= 1

C19_Witness ==
    /\ AuthsDone
    /\ Len(arg) = 2
    /\ env[1].built /\ ~env[1].sent
    /\ Succeeds(env[2])
    /\ ret.res.val.success[1].session = Session(SessionsBefore + 2)

\* C20: gen_key returns Ok or Err for every answer, the empty array included.
C20_GenKeyNeverPanics == GenKeyReturned => ret.res.tag \in {"Ok", "Err"}
(***************************************************************************)
(* resources/light.rs: the lights of a bridge and the change pending on    *)
(* each of them.                                                           *)
(***************************************************************************)
LightNames == <<"Hue Go 1", "Main J", "Hue white lamp">>

State(on) == [on |-> on]
LightChange(on) == [on |-> on]
LightChangeDefault == LightChange(None)
Light(name, state, change) == [name |-> name, state |-> state, change |-> change]

\* Deserialize for Light: every value of state.on and of change can be loaded
LoadedLights(name) ==
    {Light(name, State(on), change) :
        on \in BOOLEAN,
        change \in {None, Some(LightChangeDefault)}
                   \cup {Some(LightChange(Some(b))) : b \in BOOLEAN}}

\* Option::get_or_insert
GetOrInsert(opt, value) == IF IsSome(opt) THEN opt ELSE Some(value)

\* the pending change is written only when none is there yet
LightToggleInsertOnly(self) ==
    LET on == ~self.state.on IN
    [self EXCEPT !.state.on = on,
                 !.change = GetOrInsert(@, LightChange(Some(on)))]

LightToggle(self) ==
    LET on == ~self.state.on
        change == GetOrInsert(self.change, LightChangeDefault)
    IN  [self EXCEPT !.state.on = on,
                     !.change = Some([change[1] EXCEPT !.on = Some(on)])]

\* the lights are loaded, none toggled yet
LightInit ==
    /\ discoverer = BrokerMdns
    /\ pc = "idle"
    /\ arg = <<>>
    /\ iter = <<>>
    /\ results = EmptyResults
    /\ ret = NoReturn
    /\ env = <<>>
    /\ net = <<>>
    /\ sessions = 0
    /\ discoverCalls = 0
    /\ stream = EmptyStream
    /\ \E n \in 1..MaxLights :
        /\ lights \in [1..n -> UNION {LoadedLights(LightNames[k]) : k \in 1..n}]
        /\ \A k \in 1..n : lights[k].name = LightNames[k]
        /\ toggled = [k \in 1..n |-> <<>>]

Toggle ==
    /\ \E key \in DOMAIN lights :
        /\ Len(toggled[key]) < MaxToggles
        /\ lights' = [lights EXCEPT ![key] = LightToggle(@)]
        /\ toggled' = [toggled EXCEPT ![key] = Append(@, lights[key].state.on)]
    /\ UNCHANGED <<discoverer, pc, arg, iter, results, ret, env, net, sessions,
                   discoverCalls, stream>>

LightNext == Toggle

LightSpec == LightInit /\ [][LightNext]_vars

\* C21: on every light toggled at least once the pending change is present
\* and its `on` is the light's current state.on, and after two toggles in a
\* row state.on is what it was before them.
C21_ToggleKeepsChangeInStep ==
    \A key \in DOMAIN lights :
        LET n == Len(toggled[key]) IN
        /\ n >= 1 => /\ IsSome(lights[key].change)
                     /\ lights[key].change[1].on = Some(lights[key].state.on)
                     /\ lights[key].state.on = ~toggled[key][n]
        /\ n >= 2 => lights[key].state.on = toggled[key][n - 1]

C21_Witness ==
    \E key \in DOMAIN lights :
        /\ Len(toggled[key]) = 2
        /\ toggled[key][1] = TRUE
        /\ lights[key].change = Some(LightChange(Some(TRUE)))
====
